---- MODULE Spec2Model ----
(***************************************************************************)
(* Model of immich-optimizer: the task processing pipeline (tasks.go),     *)
(* the job continuation protocol (jobs.go), the first synchronous upload   *)
(* handler (main.go) and the filesystem ingestion path (watcher.go).       *)
(***************************************************************************)
EXTENDS Integers, Sequences, FiniteSets, TLC

(* ------------------------------ bounds --------------------------------- *)
MaxJobs == 1
MaxWaiters == 2
MaxTasks == 2
MaxSize == 2
GateCapacity == 1
MaxLegacy == 2
MaxEvents == 2

Jobs == 1..MaxJobs
Waiters == 1..MaxWaiters
Handlers == 1..MaxLegacy
FW == 0
Owners == {FW} \cup Jobs

VARIABLES
  scope,                 \* which actors and inputs a specification exercises
  config,                \* config.Tasks
  tp,                    \* one TaskProcessor per owner
  dirs,                  \* existing processing-* workspaces
  semaphore,             \* permits currently held in the gate channel
  job,                   \* newJob invocations (and their delivery goroutine)
  jobChannels,           \* keys of the jobChannels map
  jobChannelsComplete,   \* keys of the jobChannelsComplete map
  chans,                 \* the channel objects made by newJob
  retired,               \* number of cleanup1 runs per job
  respBody,              \* upstream response body per job
  panicked,              \* goroutines that panicked
  waiter,                \* continueJob invocations
  upstream,              \* requests received by the upstream server
  legacy,                \* handleMultipartUpload invocations (main.go)
  fw,                    \* the FileWatcher inside processFile
  fwFiles,               \* regular files of the watched tree: name -> size
  immich,                \* UploadAsset calls made by the watcher
  inotify                \* the inotify instance read by watchLoop

registry == <<jobChannels, jobChannelsComplete, chans, retired>>
ingest == <<legacy, fw, fwFiles, immich, inotify>>
vars == <<scope, config, tp, dirs, semaphore, job, jobChannels,
          jobChannelsComplete, chans, retired, respBody, panicked, waiter,
          upstream, legacy, fw, fwFiles, immich, inotify>>

(* ------------------------------ strings -------------------------------- *)
\* strings are sequences of one-character strings
Max(S) == CHOOSE x \in S : \A y \in S : y <= x
Min(S) == CHOOSE x \in S : \A y \in S : x <= y

ToLowerChar(c) ==
  CASE c = "J" -> "j" [] c = "P" -> "p" [] c = "X" -> "x" [] OTHER -> c

ToLower(s) == [i \in 1..Len(s) |-> ToLowerChar(s[i])]

HasPrefix(s, p) == Len(s) >= Len(p) /\ SubSeq(s, 1, Len(p)) = p
HasSuffix(s, p) == Len(s) >= Len(p) /\ SubSeq(s, Len(s) - Len(p) + 1, Len(s)) = p
TrimPrefix(s, p) == IF HasPrefix(s, p) THEN SubSeq(s, Len(p) + 1, Len(s)) ELSE s
TrimSuffix(s, p) == IF HasSuffix(s, p) THEN SubSeq(s, 1, Len(s) - Len(p)) ELSE s

\* path.Ext: the suffix beginning at the final dot, empty if there is no dot
pathExt(name) ==
  LET dots == {i \in 1..Len(name) : name[i] = "."}
  IN IF dots = {} THEN <<>> ELSE SubSeq(name, Max(dots), Len(name))

normalizeExtension_nodot(extension) == ToLower(extension)
normalizeExtension(extension) == TrimPrefix(ToLower(extension), <<".">>)

trimSuffixCaseInsensitive_exact(str, suffix) == TrimSuffix(str, suffix)
trimSuffixCaseInsensitive(str, suffix) ==
  IF HasSuffix(ToLower(str), ToLower(suffix))
  THEN SubSeq(str, 1, Len(str) - Len(suffix))
  ELSE str

(* ------------------------------ config --------------------------------- *)
Task(name, exts, cmd) == [Name |-> name, Extensions |-> exts, Command |-> cmd]

TaskKinds ==
  { Task("A", {<<"j">>}, "cmd"),
    Task("B", {<<"j">>, <<"p">>}, "cmd"),
    Task("C", {<<"J">>, <<".", "j">>}, "cmd"),
    Task("D", {<<"p">>}, "") }

Configs == UNION {[1..n -> TaskKinds] : n \in 0..MaxTasks}

Filenames == { <<"a", ".", "j">>, <<"a", ".", "J">>, <<"a", ".", "p">>, <<"a">> }

\* file contents: byte i of an original is i, every byte of the output of
\* the command of task k is 10 + k
Bytes(n) == [i \in 1..n |-> i]
Output(k, n) == [i \in 1..n |-> 10 + k]

(* ----------------------------- file handles ---------------------------- *)
NoHandle == [open |-> FALSE, content |-> <<>>, off |-> 0]
Open(content) == [open |-> TRUE, content |-> content, off |-> 0]
\* io.Copy(dst, f): the bytes from the current offset to the end
ReadAll(f) == SubSeq(f.content, f.off + 1, Len(f.content))
AtEOF(f) == [f EXCEPT !.off = Len(f.content)]
SeekStart(f) == [f EXCEPT !.off = 0]

(* ---------------------------- TaskProcessor ---------------------------- *)
Nil == [kind |-> "nil", tasks |-> <<>>]
NoTaskFound == [kind |-> "notask", tasks |-> <<>>]

IdleTP ==
  [pc |-> "idle", OriginalFilename |-> <<>>, OriginalExtension |-> <<>>,
   OriginalSize |-> 0, OriginalFile |-> NoHandle,
   ProcessedFilename |-> <<>>, ProcessedFile |-> NoHandle,
   ProcessedExtension |-> <<>>, ProcessedSize |-> 0,
   processedFileName |-> <<>>, tempWorkDir |-> 0, semaphore |-> "nil",
   cmdErr |-> 0, files |-> 0,
   idx |-> 1, errors |-> <<>>, err |-> Nil,
   attempted |-> <<>>, won |-> 0, cleaned |-> 0]

\* NewTaskProcessor followed by the entry of Process
NewTaskProcessor(filename, content) ==
  [IdleTP EXCEPT !.pc = "loop",
                 !.OriginalFilename = filename,
                 !.OriginalFile = Open(content),
                 !.OriginalExtension = ToLower(pathExt(filename)),
                 !.OriginalSize = Len(content),
                 !.err = NoTaskFound]

\* the constructor used by newJob: the descriptor of the uploaded form file
NewTaskProcessorFromMultipart(filename, content) ==
  NewTaskProcessor(filename, content)

SetSemaphore(t, sem) == [t EXCEPT !.semaphore = sem]

Matches(task, t) == normalizeExtension(t.OriginalExtension) \in task.Extensions

\* the next task the loop of Process attempts, Len(config) + 1 if none
NextMatch(t) ==
  LET ms == {i \in t.idx..Len(config) : Matches(config[i], t)}
  IN IF ms = {} THEN Len(config) + 1 ELSE Min(ms)

\* the error Process returns after the loop
FinalErr(err, errors) ==
  IF Len(errors) > 1 THEN [kind |-> "errors", tasks |-> errors]
  ELSE IF Len(errors) = 1 THEN [kind |-> "task", tasks |-> errors]
  ELSE err

cleanWorkDir(t) == [t EXCEPT !.tempWorkDir = 0]

Close(t) ==
  [cleanWorkDir(t) EXCEPT !.OriginalFile = [@ EXCEPT !.open = FALSE],
                          !.cleaned = @ + 1]
\* tp.Clean() as called by newJob
Clean(t) == Close(t)

FreshDir_fixed == Min(1..(Cardinality(dirs) + 1))
FreshDir == Min((1..(Cardinality(dirs) + 1)) \ dirs)

\* outcomes of one run of a command: exit status, number of entries left in
\* the destination directory, size and extension of the entry
Outcomes(cmd) ==
  IF cmd = ""
  THEN {[status |-> 0, nfiles |-> 0, size |-> 0, ext |-> <<>>]}
  ELSE {[status |-> 1, nfiles |-> 0, size |-> 0, ext |-> <<>>]}
       \cup {[status |-> 0, nfiles |-> n, size |-> 0, ext |-> <<>>] : n \in {0, 2}}
       \cup {[status |-> 0, nfiles |-> 1, size |-> s, ext |-> e] :
               s \in scope.outs, e \in scope.outexts}

\* a failed attempt inside the loop of Process
FailAttempt(t, i, cause) ==
  [cleanWorkDir(t) EXCEPT !.pc = "loop", !.idx = i + 1,
       !.errors = Append(@, [task |-> config[i].Name, cause |-> cause])]

\* run, up to the gate: setupWorkDirectories, copySourceFile, buildCommand
TPStartAttempt(o) ==
  LET t == tp[o]  i == NextMatch(tp[o]) IN
  /\ t.pc = "loop"
  /\ i <= Len(config)
  /\ \E ok \in BOOLEAN :
       IF ok
       THEN /\ tp' = [tp EXCEPT ![o] =
                 [t EXCEPT !.pc = "acquire", !.idx = i,
                           !.attempted = Append(@, i),
                           !.tempWorkDir = FreshDir,
                           !.OriginalFile = AtEOF(SeekStart(@))]]
            /\ dirs' = dirs \cup {FreshDir}
       ELSE /\ tp' = [tp EXCEPT ![o] =
                 FailAttempt([t EXCEPT !.attempted = Append(@, i)], i, "setup")]
            /\ dirs' = dirs
  /\ UNCHANGED <<scope, config, semaphore, job, registry, respBody, panicked,
                 waiter, upstream, ingest>>

\* executeCommand: take a permit when a semaphore is set, start the command
TPAcquire_nogate(o) ==
  /\ tp[o].pc = "acquire"
  /\ tp' = [tp EXCEPT ![o].pc = "exec"]
  /\ semaphore' = IF tp[o].semaphore = "nil" THEN semaphore ELSE semaphore + 1
  /\ UNCHANGED <<scope, config, dirs, job, registry, respBody, panicked,
                 waiter, upstream, ingest>>
TPAcquire(o) ==
  /\ tp[o].pc = "acquire"
  /\ tp[o].semaphore = "nil" \/ semaphore < GateCapacity
  /\ tp' = [tp EXCEPT ![o].pc = "exec"]
  /\ semaphore' = IF tp[o].semaphore = "nil" THEN semaphore ELSE semaphore + 1
  /\ UNCHANGED <<scope, config, dirs, job, registry, respBody, panicked,
                 waiter, upstream, ingest>>

\* processResults on the only entry of the destination directory
processResults(t, i, out) ==
  LET processedFileName == <<"o">> \o out.ext IN
  [t EXCEPT !.pc = "returned",
            !.processedFileName = processedFileName,
            !.ProcessedFile = Open(Output(i, out.size)),
            !.ProcessedExtension = ToLower(pathExt(processedFileName)),
            !.ProcessedSize = out.size,
            !.ProcessedFilename =
               trimSuffixCaseInsensitive(t.OriginalFilename, t.OriginalExtension)
                 \o ToLower(pathExt(processedFileName)),
            !.won = i,
            !.err = FinalErr(Nil, t.errors)]

\* the command exits: the permit is released, the destination directory is
\* inspected, the loop of Process continues or breaks
TPCommandExit_leakonerror(o) ==
  LET t == tp[o]  i == tp[o].idx IN
  /\ t.pc = "exec"
  /\ \E out \in Outcomes(config[i].Command) :
       IF out.status # 0
       THEN /\ tp' = [tp EXCEPT ![o] =
                 FailAttempt([t EXCEPT !.cmdErr = out.status], i, "exit")]
            /\ dirs' = dirs \ {t.tempWorkDir}
            /\ semaphore' = semaphore
       ELSE /\ semaphore' = IF t.semaphore = "nil" THEN semaphore ELSE semaphore - 1
            /\ IF out.nfiles # 1
               THEN /\ tp' = [tp EXCEPT ![o] = FailAttempt(t, i, "count")]
                    /\ dirs' = dirs \ {t.tempWorkDir}
               ELSE /\ tp' = [tp EXCEPT ![o] = processResults(t, i, out)]
                    /\ dirs' = dirs
  /\ UNCHANGED <<scope, config, job, registry, respBody, panicked, waiter,
                 upstream, ingest>>
TPCommandExit_atleastone(o) ==
  LET t == tp[o]  i == tp[o].idx IN
  /\ t.pc = "exec"
  /\ semaphore' = IF t.semaphore = "nil" THEN semaphore ELSE semaphore - 1
  /\ \E out \in Outcomes(config[i].Command) :
       LET r == [t EXCEPT !.cmdErr = out.status, !.files = out.nfiles] IN
       IF out.status # 0
       THEN /\ tp' = [tp EXCEPT ![o] = FailAttempt(r, i, "exit")]
            /\ dirs' = dirs \ {t.tempWorkDir}
       ELSE IF out.nfiles < 1
       THEN /\ tp' = [tp EXCEPT ![o] = FailAttempt(r, i, "count")]
            /\ dirs' = dirs \ {t.tempWorkDir}
       ELSE /\ tp' = [tp EXCEPT ![o] = processResults(r, i, out)]
            /\ dirs' = dirs
  /\ UNCHANGED <<scope, config, job, registry, respBody, panicked, waiter,
                 upstream, ingest>>
TPCommandExit(o) ==
  LET t == tp[o]  i == tp[o].idx IN
  /\ t.pc = "exec"
  /\ semaphore' = IF t.semaphore = "nil" THEN semaphore ELSE semaphore - 1
  /\ \E out \in Outcomes(config[i].Command) :
       LET r == [t EXCEPT !.cmdErr = out.status, !.files = out.nfiles] IN
       IF out.status # 0
       THEN /\ tp' = [tp EXCEPT ![o] = FailAttempt(r, i, "exit")]
            /\ dirs' = dirs \ {t.tempWorkDir}
       ELSE IF out.nfiles # 1
       THEN /\ tp' = [tp EXCEPT ![o] = FailAttempt(r, i, "count")]
            /\ dirs' = dirs \ {t.tempWorkDir}
       ELSE /\ tp' = [tp EXCEPT ![o] = processResults(r, i, out)]
            /\ dirs' = dirs
  /\ UNCHANGED <<scope, config, job, registry, respBody, panicked, waiter,
                 upstream, ingest>>

\* the loop of Process ends without a successful attempt
TPReturn(o) ==
  LET t == tp[o] IN
  /\ t.pc = "loop"
  /\ NextMatch(t) > Len(config)
  /\ tp' = [tp EXCEPT ![o] =
        [t EXCEPT !.pc = "returned", !.idx = Len(config) + 1,
                  !.err = FinalErr(t.err, t.errors)]]
  /\ UNCHANGED <<scope, config, dirs, semaphore, job, registry, respBody,
                 panicked, waiter, upstream, ingest>>

Process(o) ==
  TPStartAttempt(o) \/ TPAcquire(o) \/ TPCommandExit(o) \/ TPReturn(o)

(* ------------------------------- newJob -------------------------------- *)
IdleJob ==
  [pc |-> "idle", follows |-> TRUE, filename |-> <<>>, content |-> <<>>,
   status |-> "none", req |-> [filename |-> <<>>, body |-> <<>>, replaced |-> FALSE],
   exit |-> "none", attempts |-> 0, received |-> 0, blocked |-> 0]

\* cleanup1: close and delete both channels of the job
cleanup1(j) ==
  /\ jobChannels' = jobChannels \ {j}
  /\ jobChannelsComplete' = jobChannelsComplete \ {j}
  /\ chans' = [chans EXCEPT ![j] = [res |-> "closed", ack |-> "closed"]]
  /\ retired' = [retired EXCEPT ![j] = @ + 1]
  /\ panicked' =
       IF j \in jobChannels /\ j \in jobChannelsComplete
          /\ chans[j].res = "open" /\ chans[j].ack = "open"
       THEN panicked ELSE panicked \cup {<<"cleanup", j>>}

\* cleanup2: tp.Clean() and cleanup1
cleanup2_noclean(j) ==
  /\ tp' = tp
  /\ dirs' = dirs
  /\ cleanup1(j)
cleanup2(j) ==
  /\ tp' = [tp EXCEPT ![j] = Clean(@)]
  /\ dirs' = dirs \ {tp[j].tempWorkDir}
  /\ cleanup1(j)

\* cleanup3: resp.Body.Close() and cleanup2
cleanup3_twice(j) ==
  /\ respBody' = [respBody EXCEPT ![j] = "closed"]
  /\ tp' = [tp EXCEPT ![j] = Clean(@)]
  /\ dirs' = dirs \ {tp[j].tempWorkDir}
  /\ jobChannels' = jobChannels \ {j}
  /\ jobChannelsComplete' = jobChannelsComplete \ {j}
  /\ chans' = [chans EXCEPT ![j] = [res |-> "closed", ack |-> "closed"]]
  /\ retired' = [retired EXCEPT ![j] = @ + 2]
  /\ panicked' = panicked \cup {<<"cleanup", j>>}
cleanup3(j) ==
  /\ respBody' = [respBody EXCEPT ![j] = "closed"]
  /\ cleanup2(j)

\* lines 16-56: read the form file, register the channels, redirect
JobArrive(j) ==
  /\ j \in scope.jobs
  /\ job[j].pc = "idle"
  /\ \E follows \in scope.follow, name \in scope.names, n \in scope.sizes,
        formOK \in BOOLEAN :
       IF formOK
       THEN /\ job' = [job EXCEPT ![j] =
                 [@ EXCEPT !.pc = "created", !.follows = follows,
                           !.filename = name, !.content = Bytes(n),
                           !.status = IF follows THEN "307" ELSE "none"]]
            /\ jobChannels' = jobChannels \cup {j}
            /\ jobChannelsComplete' = jobChannelsComplete \cup {j}
            /\ chans' = [chans EXCEPT ![j] = [res |-> "open", ack |-> "open"]]
       ELSE /\ job' = [job EXCEPT ![j] = [@ EXCEPT !.pc = "done", !.status = "error"]]
            /\ UNCHANGED <<jobChannels, jobChannelsComplete, chans>>
  /\ UNCHANGED <<scope, config, tp, dirs, semaphore, retired, respBody,
                 panicked, waiter, upstream, ingest>>

\* the status newJob writes itself on a failure
FailStatus_silent(j) == job[j].status
FailStatus(j) == IF job[j].follows THEN job[j].status ELSE "500"

\* lines 59-69: create the task processor
JobNewTP(j) ==
  /\ job[j].pc = "created"
  /\ \E ok \in BOOLEAN :
       IF ok
       THEN /\ tp' = [tp EXCEPT ![j] =
                 NewTaskProcessorFromMultipart(job[j].filename, job[j].content)]
            /\ job' = [job EXCEPT ![j].pc = "processing"]
            /\ UNCHANGED <<registry, panicked>>
       ELSE /\ cleanup1(j)
            /\ job' = [job EXCEPT ![j] =
                 [@ EXCEPT !.pc = "done", !.exit = "processor",
                           !.status = FailStatus(j)]]
            /\ tp' = tp
  /\ UNCHANGED <<scope, config, dirs, semaphore, respBody, waiter, upstream, ingest>>

\* line 77: if err != nil
ProcessFailed_never(t) == FALSE
ProcessFailed(t) == t.err # Nil

\* line 86
replace_orequal(t) == t.OriginalSize >= t.ProcessedSize
replace(t) == t.OriginalSize > t.ProcessedSize

\* lines 77-145: Process has returned; build the request to be sent upstream
JobAfterProcess(j) ==
  LET t == tp[j]
      uploadFilename == IF replace(t) THEN t.ProcessedFilename ELSE t.OriginalFilename
      uploadFile == IF replace(t) THEN t.ProcessedFile ELSE t.OriginalFile
  IN
  /\ job[j].pc = "processing"
  /\ t.pc = "returned"
  /\ IF ProcessFailed(t)
     THEN /\ cleanup2(j)
          /\ job' = [job EXCEPT ![j] =
               [@ EXCEPT !.pc = "done", !.exit = "pipeline",
                         !.status = FailStatus(j)]]
     ELSE \E ok \in BOOLEAN :
          IF ok
          THEN /\ job' = [job EXCEPT ![j] =
                    [@ EXCEPT !.pc = "posting",
                              !.req = [filename |-> uploadFilename,
                                       body |-> ReadAll(uploadFile),
                                       replaced |-> replace(t)]]]
               /\ tp' = [tp EXCEPT ![j] =
                    IF replace(t)
                    THEN [t EXCEPT !.pc = "used", !.ProcessedFile = AtEOF(@)]
                    ELSE [t EXCEPT !.pc = "used", !.OriginalFile = AtEOF(@)]]
               /\ UNCHANGED <<dirs, registry, panicked>>
          ELSE /\ cleanup2(j)
               /\ job' = [job EXCEPT ![j] = [@ EXCEPT !.pc = "done", !.exit = "build"]]
  /\ UNCHANGED <<scope, config, semaphore, respBody, waiter, upstream, ingest>>

\* the upload as the client sent it: the non-file fields of the form (one key
\* with two values, one with one), the key of the file part, the headers
filterFormKey == "assetData"
MultipartFormValue ==
  <<[key |-> "deviceId", value |-> "v1"], [key |-> "deviceId", value |-> "v2"],
    [key |-> "isFavorite", value |-> "v1"]>>
ClientHeader ==
  <<[key |-> "Content-Type", value |-> "client"],
    [key |-> "Content-Length", value |-> "client"],
    [key |-> "X-Api-Key", value |-> "client"]>>

\* lines 92-101: every value of every field is written to the new form
WriteFields(form) == form

\* lines 140-145: the content type of the new form is set, then every value
\* of every header of the client request is added
UpstreamHeader(h) == <<[key |-> "Content-Type", value |-> "rebuilt"]>> \o h

\* client.Do writes the length of the body it sends and ignores a
\* Content-Length entry of the header map
Transport(h) ==
  SelectSeq(h, LAMBDA e : e.key # "Content-Length")
    \o <<[key |-> "Content-Length", value |-> "rebuilt"]>>

\* lines 147-167: client.Do(req)
JobPost_alwaysdeliver(j) ==
  /\ job[j].pc = "posting"
  /\ upstream' = upstream \cup
        {[from |-> j, filename |-> job[j].req.filename,
          body |-> job[j].req.body, replaced |-> job[j].req.replaced,
          original |-> job[j].content,
          processed |-> tp[j].ProcessedFile.content,
          fields |-> WriteFields(MultipartFormValue),
          fileParts |-> <<filterFormKey>>,
          headers |-> Transport(UpstreamHeader(ClientHeader))]}
  /\ respBody' = [respBody EXCEPT ![j] = "open"]
  /\ job' = [job EXCEPT ![j] = [@ EXCEPT !.pc = "deliver", !.attempts = @ + 1]]
  /\ UNCHANGED <<scope, config, tp, dirs, semaphore, registry, panicked,
                 waiter, ingest>>
JobPost(j) ==
  /\ job[j].pc = "posting"
  /\ \E ok \in BOOLEAN :
       IF ok
       THEN /\ upstream' = upstream \cup
                 {[from |-> j, filename |-> job[j].req.filename,
                   body |-> job[j].req.body, replaced |-> job[j].req.replaced,
                   original |-> job[j].content,
                   processed |-> tp[j].ProcessedFile.content,
                   fields |-> WriteFields(MultipartFormValue),
                   fileParts |-> <<filterFormKey>>,
                   headers |-> Transport(UpstreamHeader(ClientHeader))]}
            /\ respBody' = [respBody EXCEPT ![j] = "open"]
            /\ job' = [job EXCEPT ![j] =
                 IF job[j].follows
                 THEN [@ EXCEPT !.pc = "deliver", !.attempts = @ + 1]
                 ELSE [@ EXCEPT !.pc = "direct"]]
            /\ UNCHANGED <<tp, dirs, registry, panicked>>
       ELSE /\ cleanup2(j)
            /\ job' = [job EXCEPT ![j] = [@ EXCEPT !.pc = "done", !.exit = "post"]]
            /\ UNCHANGED <<upstream, respBody>>
  /\ UNCHANGED <<scope, config, semaphore, waiter, ingest>>

\* lines 169-180: a client that does not follow redirects is answered here
JobDirect(j) ==
  /\ job[j].pc = "direct"
  /\ job' = [job EXCEPT ![j] =
        [@ EXCEPT !.pc = "done", !.exit = "direct", !.status = "upstream"]]
  /\ cleanup3(j)
  /\ UNCHANGED <<scope, config, semaphore, waiter, upstream, ingest>>

\* line 188: the goroutine hands the response to one blocked continueJob
JobDeliverSend_all(j, w) ==
  LET ws == {v \in Waiters : waiter[v].pc = "select" /\ waiter[v].job = j} IN
  /\ job[j].pc = "deliver"
  /\ w \in ws
  /\ job' = [job EXCEPT ![j] =
        [@ EXCEPT !.pc = "ackwait", !.received = @ + Cardinality(ws),
                  !.blocked = Cardinality(ws)]]
  /\ waiter' = [v \in Waiters |->
        IF v \in ws THEN [waiter[v] EXCEPT !.pc = "stream", !.resp = "upstream"]
        ELSE waiter[v]]
  /\ UNCHANGED <<scope, config, tp, dirs, semaphore, registry, respBody,
                 panicked, upstream, ingest>>
JobDeliverSend_noackwait(j, w) ==
  /\ job[j].pc = "deliver"
  /\ waiter[w].pc = "select" /\ waiter[w].job = j
  /\ job' = [job EXCEPT ![j] =
        [@ EXCEPT !.pc = "done", !.exit = "ack", !.received = @ + 1]]
  /\ waiter' = [waiter EXCEPT ![w] = [@ EXCEPT !.pc = "stream", !.resp = "upstream"]]
  /\ cleanup3(j)
  /\ UNCHANGED <<scope, config, semaphore, upstream, ingest>>
JobDeliverSend(j, w) ==
  /\ job[j].pc = "deliver"
  /\ waiter[w].pc = "select" /\ waiter[w].job = j
  /\ job' = [job EXCEPT ![j] =
        [@ EXCEPT !.pc = "ackwait", !.received = @ + 1,
                  !.blocked = Cardinality({v \in Waiters :
                       waiter[v].pc = "select" /\ waiter[v].job = j})]]
  /\ waiter' = [waiter EXCEPT ![w] = [@ EXCEPT !.pc = "stream", !.resp = "upstream"]]
  /\ UNCHANGED <<scope, config, tp, dirs, semaphore, registry, respBody,
                 panicked, upstream, ingest>>

\* line 197: nobody asked for the response within 10 seconds
JobDeliverTimeout_leak(j) ==
  /\ job[j].pc = "deliver"
  /\ job' = [job EXCEPT ![j] = [@ EXCEPT !.pc = "done", !.exit = "delivertimeout"]]
  /\ UNCHANGED <<scope, config, tp, dirs, semaphore, registry, respBody,
                 panicked, waiter, upstream, ingest>>
JobDeliverTimeout(j) ==
  /\ job[j].pc = "deliver"
  /\ job' = [job EXCEPT ![j] = [@ EXCEPT !.pc = "done", !.exit = "delivertimeout"]]
  /\ cleanup3(j)
  /\ UNCHANGED <<scope, config, semaphore, waiter, upstream, ingest>>

\* line 192: the acknowledgment of continueJob arrives
JobAckRecv(j, w) ==
  /\ job[j].pc = "ackwait"
  /\ waiter[w].pc = "acksend" /\ waiter[w].job = j /\ waiter[w].ackref = "chan"
  /\ chans[j].ack = "open"
  /\ job' = [job EXCEPT ![j] = [@ EXCEPT !.pc = "done", !.exit = "ack"]]
  /\ waiter' = [waiter EXCEPT ![w].pc = "done"]
  /\ cleanup3(j)
  /\ UNCHANGED <<scope, config, semaphore, upstream, ingest>>

\* line 194: no acknowledgment within 10 seconds
JobAckTimeout_keepwaiting(j) ==
  /\ job[j].pc = "ackwait"
  /\ UNCHANGED vars
JobAckTimeout(j) ==
  /\ job[j].pc = "ackwait"
  /\ job' = [job EXCEPT ![j] = [@ EXCEPT !.pc = "done", !.exit = "acktimeout"]]
  /\ cleanup3(j)
  /\ UNCHANGED <<scope, config, semaphore, waiter, upstream, ingest>>

\* the handler that called newJob is still inside it (lines 16-180); from
\* line 183 on the job is carried by the goroutine
InHandler(j) == job[j].pc \in {"created", "processing", "posting", "direct"}

\* the steps of newJob that need no wait-endpoint request
newJob(j) ==
  \/ JobArrive(j) \/ JobNewTP(j) \/ Process(j) \/ JobAfterProcess(j)
  \/ JobPost(j) \/ JobDirect(j) \/ JobDeliverTimeout(j)

(* ----------------------------- continueJob ----------------------------- *)
NoJob == 0
IdleWaiter ==
  [pc |-> "idle", job |-> NoJob, ackref |-> "none", resp |-> "none",
   redirected |-> FALSE]

\* lines 206-211: look the job up; an empty or unknown identifier is a 400
WStart_noexists(w) ==
  /\ w \in scope.waiters
  /\ waiter[w].pc \in {"idle", "done"}
  /\ \E id \in {NoJob} \cup Jobs :
       waiter' = [waiter EXCEPT ![w] =
         IF id = NoJob
         THEN [IdleWaiter EXCEPT !.pc = "done", !.job = id, !.resp = "400"]
         ELSE [IdleWaiter EXCEPT !.pc = "select", !.job = id]]
  /\ UNCHANGED <<scope, config, tp, dirs, semaphore, job, registry, respBody,
                 panicked, upstream, ingest>>
WStart(w) ==
  /\ w \in scope.waiters
  /\ waiter[w].pc \in {"idle", "done"}
  /\ \E id \in {NoJob} \cup Jobs :
       waiter' = [waiter EXCEPT ![w] =
         IF id = NoJob \/ id \notin jobChannels
         THEN [IdleWaiter EXCEPT !.pc = "done", !.job = id, !.resp = "400"]
         ELSE [IdleWaiter EXCEPT !.pc = "select", !.job = id,
                 !.redirected = (waiter[w].job = id /\ waiter[w].resp = "307")]]
  /\ UNCHANGED <<scope, config, tp, dirs, semaphore, job, registry, respBody,
                 panicked, upstream, ingest>>

\* lines 225-231: the channel was closed while waiting
WRecvClosed(w) ==
  /\ waiter[w].pc = "select"
  /\ chans[waiter[w].job].res = "closed"
  /\ waiter' = [waiter EXCEPT ![w] = [@ EXCEPT !.pc = "done", !.resp = "500"]]
  /\ UNCHANGED <<scope, config, tp, dirs, semaphore, job, registry, respBody,
                 panicked, upstream, ingest>>

\* lines 246-248: 55 seconds without a result, redirect to the same URL
WTimeout_retire(w) ==
  /\ waiter[w].pc = "select"
  /\ waiter' = [waiter EXCEPT ![w] = [@ EXCEPT !.pc = "done", !.resp = "307"]]
  /\ jobChannels' = jobChannels \ {waiter[w].job}
  /\ UNCHANGED <<scope, config, tp, dirs, semaphore, job, jobChannelsComplete,
                 chans, retired, respBody, panicked, upstream, ingest>>
WTimeout_cancel(w) ==
  /\ waiter[w].pc = "select"
  /\ waiter' = [waiter EXCEPT ![w] = [@ EXCEPT !.pc = "done", !.resp = "307"]]
  /\ tp' = [tp EXCEPT ![waiter[w].job] =
        IF @.pc = "exec" THEN FailAttempt(@, @.idx, "cancelled") ELSE @]
  /\ UNCHANGED <<scope, config, dirs, semaphore, job, registry, respBody,
                 panicked, upstream, ingest>>
WTimeout(w) ==
  /\ waiter[w].pc = "select"
  /\ waiter' = [waiter EXCEPT ![w] = [@ EXCEPT !.pc = "done", !.resp = "307"]]
  /\ UNCHANGED <<scope, config, tp, dirs, semaphore, job, registry, respBody,
                 panicked, upstream, ingest>>

\* lines 240-245: the body has been streamed, evaluate the channel to send on
WStreamDone(w) ==
  /\ waiter[w].pc = "stream"
  /\ waiter' = [waiter EXCEPT ![w] =
        [@ EXCEPT !.pc = "acksend",
                  !.ackref = IF waiter[w].job \in jobChannelsComplete
                             THEN "chan" ELSE "nil"]]
  /\ UNCHANGED <<scope, config, tp, dirs, semaphore, job, registry, respBody,
                 panicked, upstream, ingest>>

\* line 245: the channel is closed under the blocked send
WAckPanic(w) ==
  /\ waiter[w].pc = "acksend"
  /\ waiter[w].ackref = "chan"
  /\ chans[waiter[w].job].ack = "closed"
  /\ waiter' = [waiter EXCEPT ![w].pc = "panicked"]
  /\ panicked' = panicked \cup {<<"continueJob", w>>}
  /\ UNCHANGED <<scope, config, tp, dirs, semaphore, job, registry, respBody,
                 upstream, ingest>>

continueJob(w) ==
  WStart(w) \/ WRecvClosed(w) \/ WTimeout(w) \/ WStreamDone(w) \/ WAckPanic(w)

(* ---------------- handleMultipartUpload (main.go) ---------------------- *)
IdleLegacy ==
  [pc |-> "idle", filename |-> <<>>, content |-> <<>>, image |-> NoHandle,
   status |-> "none", failed |-> "none",
   req |-> [filename |-> <<>>, body |-> <<>>, replaced |-> FALSE],
   newSize |-> 0, cmdErr |-> 0, files |-> 0]

\* the handler of main answers a failed upload with a 500; the deferred
\* receive gives the permit back
LegFail(h, why) ==
  /\ legacy' = [legacy EXCEPT ![h] =
        [@ EXCEPT !.pc = "done", !.status = "500", !.failed = why]]
  /\ semaphore' = semaphore - 1

\* lines 152-123: take a permit, parse the form, copy the image into a
\* temporary folder and start the convert command
LegStart(h) ==
  /\ h \in scope.legacy
  /\ legacy[h].pc = "idle"
  /\ semaphore < GateCapacity
  /\ \E name \in scope.names, n \in scope.sizes, ok \in BOOLEAN :
       legacy' = [legacy EXCEPT ![h] =
          IF ok
          THEN [@ EXCEPT !.pc = "exec", !.filename = name,
                         !.content = Bytes(n),
                         !.image = AtEOF(Open(Bytes(n)))]
          ELSE [@ EXCEPT !.pc = "done", !.status = "500", !.failed = "form"]]
  /\ semaphore' = IF legacy'[h].pc = "exec" THEN semaphore + 1 ELSE semaphore
  /\ UNCHANGED <<scope, config, tp, dirs, job, registry, respBody, panicked,
                 waiter, upstream, fw, fwFiles, immich, inotify>>

\* line 184
legacyReplaced(originalSize, newSize) == originalSize > newSize

\* lines 124-233: the command exits, the result is read, the form is rebuilt
LegCommandExit(h) ==
  LET l == legacy[h]
      extension == pathExt(l.filename)
  IN
  /\ l.pc = "exec"
  /\ \E out \in Outcomes("cmd") :
       IF out.status # 0 \/ out.nfiles # 1
       THEN /\ legacy' = [legacy EXCEPT ![h] =
                 [@ EXCEPT !.pc = "done", !.status = "500",
                           !.failed = "processImage",
                           !.cmdErr = out.status, !.files = out.nfiles]]
            /\ semaphore' = semaphore - 1
       ELSE LET replaced == legacyReplaced(Len(l.content), out.size)
                newFilename == TrimSuffix(l.filename, extension) \o out.ext
            IN /\ legacy' = [legacy EXCEPT ![h] =
                    [@ EXCEPT !.pc = "post", !.newSize = out.size,
                       !.cmdErr = out.status, !.files = out.nfiles,
                       !.req = [filename |-> newFilename,
                                body |-> IF replaced THEN Output(0, out.size)
                                         ELSE ReadAll(l.image),
                                replaced |-> replaced]]]
               /\ semaphore' = semaphore
  /\ UNCHANGED <<scope, config, tp, dirs, job, registry, respBody, panicked,
                 waiter, upstream, fw, fwFiles, immich, inotify>>

\* lines 235-250: POST upstream and copy the answer to the client
LegPost(h) ==
  /\ legacy[h].pc = "post"
  /\ \E ok \in BOOLEAN :
       IF ok
       THEN /\ upstream' = upstream \cup
                 {[from |-> 0 - h, filename |-> legacy[h].req.filename,
                   body |-> legacy[h].req.body,
                   replaced |-> legacy[h].req.replaced,
                   original |-> legacy[h].content,
                   processed |-> Output(0, legacy[h].newSize),
                   fields |-> WriteFields(MultipartFormValue),
                   fileParts |-> <<filterFormKey>>,
                   headers |-> Transport(UpstreamHeader(ClientHeader))]}
            /\ legacy' = [legacy EXCEPT ![h] =
                 [@ EXCEPT !.pc = "done", !.status = "upstream"]]
            /\ semaphore' = semaphore - 1
       ELSE /\ LegFail(h, "post")
            /\ upstream' = upstream
  /\ UNCHANGED <<scope, config, tp, dirs, job, registry, respBody, panicked,
                 waiter, fw, fwFiles, immich, inotify>>

handleMultipartUpload(h) == LegStart(h) \/ LegCommandExit(h) \/ LegPost(h)

(* ---------------------- processFile (watcher.go) ----------------------- *)
\* a subdirectory created under the watch root and the files written into it
SubDir == <<"d">>
SubdirFiles == {<<"d", "/", "a", ".", "J">>}
NoFile == 0 - 1
IdleFW == [pc |-> "idle", path |-> <<>>, target |-> "none", events |-> 0]

\* a file is written into the watched tree
FwWrite(name) ==
  /\ scope.fw
  /\ fwFiles[name] = NoFile
  /\ name \in scope.names
  /\ \E n \in scope.sizes : fwFiles' = [fwFiles EXCEPT ![name] = n]
  /\ UNCHANGED <<scope, config, tp, dirs, semaphore, job, registry, respBody,
                 panicked, waiter, upstream, legacy, fw, immich, inotify>>

shouldProcessExtension_raw(extension) ==
  \E i \in 1..Len(config) : extension \in config[i].Extensions
shouldProcessExtension(extension) ==
  \E i \in 1..Len(config) : normalizeExtension(extension) \in config[i].Extensions

\* AppConfig.Semaphore: the process-wide gate
AppConfigSemaphore == "gate"

\* lines 149-184: stat, extension check, NewTaskProcessor, entry of Process.
\* counted is 1 for a call made for an event and 0 for a call of the scan
\* of Start, whose number the tree bounds
processFileCall(name, counted) ==
  /\ fw.pc = "idle"
  /\ fw.events + counted <= MaxEvents
  /\ fwFiles[name] # NoFile
  /\ IF ~shouldProcessExtension(pathExt(name))
     THEN /\ fw' = [pc |-> "upload", path |-> name, target |-> "original",
                    events |-> fw.events + counted]
          /\ tp' = tp
     ELSE \E ok \in BOOLEAN :
          IF ok
          THEN /\ fw' = [pc |-> "processing", path |-> name, target |-> "none",
                         events |-> fw.events + counted]
               /\ tp' = [tp EXCEPT ![FW] =
                    SetSemaphore(NewTaskProcessor(name, Bytes(fwFiles[name])),
                                 AppConfigSemaphore)]
          ELSE /\ fw' = [fw EXCEPT !.events = @ + counted]
               /\ tp' = tp
  /\ UNCHANGED <<scope, config, dirs, semaphore, job, registry, respBody,
                 panicked, waiter, upstream, legacy, fwFiles, immich>>

processFileEntry(name) == processFileCall(name, 1)

\* processFile is called on a file of the watched tree
FwProcessFile(name) ==
  /\ scope.fw
  /\ processFileEntry(name)
  /\ UNCHANGED inotify

\* line 193
fwReplace(t) ==
  t.ProcessedFile.open /\ t.ProcessedSize > 0 /\ t.OriginalSize > t.ProcessedSize

\* lines 184-209: Process has returned, choose the file to upload
FwAfterProcess_dropfailed ==
  LET t == tp[FW] IN
  /\ fw.pc = "processing"
  /\ t.pc = "returned"
  /\ fw' = IF t.err # Nil THEN [IdleFW EXCEPT !.events = fw.events]
           ELSE [fw EXCEPT !.pc = "upload",
                   !.target = IF fwReplace(t) THEN "processed" ELSE "original"]
  /\ tp' = [tp EXCEPT ![FW].pc = IF t.err # Nil THEN "idle" ELSE "used"]
  /\ UNCHANGED <<scope, config, dirs, semaphore, job, registry, respBody,
                 panicked, waiter, upstream, legacy, fwFiles, immich, inotify>>
FwAfterProcess ==
  LET t == tp[FW] IN
  /\ fw.pc = "processing"
  /\ t.pc = "returned"
  /\ fw' = [fw EXCEPT !.pc = "upload",
              !.target = IF t.err # Nil THEN "original"
                         ELSE IF fwReplace(t) THEN "processed" ELSE "original"]
  /\ tp' = [tp EXCEPT ![FW].pc = "used"]
  /\ UNCHANGED <<scope, config, dirs, semaphore, job, registry, respBody,
                 panicked, waiter, upstream, legacy, fwFiles, immich, inotify>>

\* the two definitions of uploadToImmich in the tree: watcher.go removes
\* the uploaded path after a successful upload, watcher_upload.go copies it
\* to the undone directory after a failed one
UploadVariants == {"watcher", "watcher_upload"}

\* copyFileToUndone(filePath, watchDir, undoneDir): the copy can fail
copyFileToUndone == BOOLEAN

\* uploadToImmich and the deferred tp.Close()
FwUpload ==
  LET t == tp[FW]
      processed == fw.target = "processed"
  IN
  /\ fw.pc = "upload"
  /\ \E ok \in BOOLEAN, copied \in copyFileToUndone :
       LET removes == ok /\ scope.upload = "watcher"
           undone == ~ok /\ scope.upload = "watcher_upload" /\ copied
       IN
       /\ (ok \/ scope.upload = "watcher") => copied
       /\ fwFiles' = IF removes /\ ~processed
                     THEN [fwFiles EXCEPT ![fw.path] = NoFile] ELSE fwFiles
       /\ immich' = Append(immich,
            [name |-> fw.path, file |-> fw.target,
             body |-> IF processed THEN t.ProcessedFile.content
                      ELSE Bytes(fwFiles[fw.path]),
             original |-> Bytes(fwFiles[fw.path]),
             success |-> (t.pc = "used" /\ t.err = Nil),
             processed |-> IF t.pc = "used" THEN t.ProcessedFile.content ELSE <<>>,
             commands |-> IF t.pc = "used" THEN Len(t.attempted) ELSE 0,
             removed |-> removes, undone |-> undone,
             left |-> fwFiles'[fw.path] # NoFile,
             ok |-> ok])
  /\ fw' = [IdleFW EXCEPT !.events = fw.events]
  /\ tp' = [tp EXCEPT ![FW] = IF t.pc = "used" THEN [Close(t) EXCEPT !.pc = "idle"] ELSE t]
  /\ dirs' = IF t.pc = "used" THEN dirs \ {t.tempWorkDir} ELSE dirs
  /\ UNCHANGED <<scope, config, semaphore, job, registry, respBody, panicked,
                 waiter, upstream, legacy, inotify>>

processFile ==
  (\E name \in Filenames : FwWrite(name) \/ FwProcessFile(name))
  \/ Process(FW) \/ FwAfterProcess \/ FwUpload

(* ----------------------- watchLoop (watcher.go) ------------------------ *)
\* dir: the subdirectory exists; root, watched: watchMap holds the watch
\* root, the subdirectory; queue: events not yet read; detected: paths handed
\* to processFile by the loop; start: the position of Start ("loop" once it
\* has returned nil and the loop runs); scan: the entries the walk of
\* processExistingFilesRecursive has still to visit; scanned: the paths it
\* handed to processFile; atStart: the tree when Start was called
NoEvents ==
  [dir |-> FALSE, root |-> TRUE, watched |-> FALSE, queue |-> <<>>,
   detected |-> {}, writes |-> 0, start |-> "loop", scan |-> <<>>,
   scanned |-> <<>>, atStart |-> [files |-> {}, dir |-> FALSE]]

watchMap == (IF inotify.root THEN {<<>>} ELSE {})
              \cup (IF inotify.watched THEN {SubDir} ELSE {})

\* mkdir under the watch root: the kernel queues IN_CREATE on the root watch
FwMkdir ==
  /\ scope.fw
  /\ ~inotify.dir
  /\ inotify' = [inotify EXCEPT !.dir = TRUE,
        !.queue = IF inotify.root
                  THEN Append(@, [mask |-> "IN_CREATE", name |-> SubDir])
                  ELSE @]
  /\ UNCHANGED <<scope, config, tp, dirs, semaphore, job, registry, respBody,
                 panicked, waiter, upstream, legacy, fw, fwFiles, immich>>

\* a file is written and closed: the kernel queues IN_CLOSE_WRITE when a
\* watch exists on the directory of the file, and nothing otherwise
FwWriteTree(name) ==
  LET inSub == name \in SubdirFiles
      watchedDir == IF inSub THEN inotify.watched ELSE inotify.root
  IN
  /\ scope.fw
  /\ name \in scope.names \cup SubdirFiles
  /\ inSub => inotify.dir
  /\ fwFiles[name] = NoFile
  /\ inotify.writes < MaxEvents
  /\ \E n \in scope.sizes : fwFiles' = [fwFiles EXCEPT ![name] = n]
  /\ inotify' = [inotify EXCEPT !.writes = @ + 1,
        !.queue = IF watchedDir
                  THEN Append(@, [mask |-> "IN_CLOSE_WRITE", name |-> name])
                  ELSE @]
  /\ UNCHANGED <<scope, config, tp, dirs, semaphore, job, registry, respBody,
                 panicked, waiter, upstream, legacy, fw, immich>>

\* lines 107-145: the loop reads the next event; IN_CREATE of a directory
\* registers a watch (addWatchRecursive), IN_CLOSE_WRITE calls processFile
FwHandleEvent_whilebusy ==
  /\ scope.fw
  /\ inotify.start = "loop"
  /\ inotify.queue # <<>>
  /\ LET e == Head(inotify.queue) IN
     IF e.mask = "IN_CREATE"
     THEN /\ inotify' = [inotify EXCEPT !.queue = Tail(@), !.watched = TRUE]
          /\ UNCHANGED <<scope, config, tp, dirs, semaphore, job, registry,
                         respBody, panicked, waiter, upstream, legacy, fw,
                         fwFiles, immich>>
     ELSE /\ inotify' = [inotify EXCEPT !.queue = Tail(@),
                                        !.detected = @ \cup {e.name}]
          /\ processFileEntry(e.name)
FwHandleEvent_newmap ==
  /\ scope.fw
  /\ inotify.start = "loop"
  /\ fw.pc = "idle"
  /\ inotify.queue # <<>>
  /\ LET e == Head(inotify.queue) IN
     IF e.mask = "IN_CREATE"
     THEN /\ inotify' = [inotify EXCEPT !.queue = Tail(@), !.watched = TRUE,
                                        !.root = FALSE]
          /\ UNCHANGED <<scope, config, tp, dirs, semaphore, job, registry,
                         respBody, panicked, waiter, upstream, legacy, fw,
                         fwFiles, immich>>
     ELSE /\ inotify' = [inotify EXCEPT !.queue = Tail(@),
                                        !.detected = @ \cup {e.name}]
          /\ processFileEntry(e.name)
FwHandleEvent ==
  /\ scope.fw
  /\ inotify.start = "loop"
  /\ fw.pc = "idle"
  /\ inotify.queue # <<>>
  /\ LET e == Head(inotify.queue) IN
     IF e.mask = "IN_CREATE"
     THEN /\ inotify' = [inotify EXCEPT !.queue = Tail(@), !.watched = TRUE]
          /\ UNCHANGED <<scope, config, tp, dirs, semaphore, job, registry,
                         respBody, panicked, waiter, upstream, legacy, fw,
                         fwFiles, immich>>
     ELSE /\ inotify' = [inotify EXCEPT !.queue = Tail(@),
                                        !.detected = @ \cup {e.name}]
          /\ processFileEntry(e.name)

watchLoop ==
  \/ FwMkdir
  \/ \E name \in Filenames \cup SubdirFiles : FwWriteTree(name)
  \/ FwHandleEvent

(* -------------------------- Start (watcher.go) ------------------------- *)
\* filepath.WalkDir visits the entries of a directory in lexical order
Root == <<>>
WalkOrder ==
  << <<"a">>, <<"a", ".", "J">>, <<"a", ".", "j">>, <<"a", ".", "p">>,
     <<"d", "/", "a", ".", "J">> >>

\* os.ReadDir of a directory of the tree
ReadDir(dir) ==
  IF dir = Root
  THEN SelectSeq(WalkOrder, LAMBDA n : n \in Filenames /\ fwFiles[n] # NoFile)
         \o (IF inotify.dir THEN <<SubDir>> ELSE <<>>)
  ELSE SelectSeq(WalkOrder, LAMBDA n : n \in SubdirFiles /\ fwFiles[n] # NoFile)

\* lines 44-52: addWatchRecursive on the watch root; InotifyAddWatch can fail
\* on any directory, and Start then returns the error
FwStart_ignoreerror ==
  /\ scope.fw
  /\ inotify.start = "new"
  /\ \E failed \in {"none", "root", "sub"} :
       /\ failed = "sub" => inotify.dir
       /\ inotify' = [inotify EXCEPT
            !.root = failed # "root",
            !.watched = inotify.dir /\ failed = "none",
            !.start = "scan",
            !.scan = <<Root>>]
  /\ UNCHANGED <<scope, config, tp, dirs, semaphore, job, registry, respBody,
                 panicked, waiter, upstream, legacy, fw, fwFiles, immich>>
FwStart ==
  /\ scope.fw
  /\ inotify.start = "new"
  /\ \E failed \in {"none", "root", "sub"} :
       /\ failed = "sub" => inotify.dir
       /\ inotify' = [inotify EXCEPT
            !.root = failed # "root",
            !.watched = inotify.dir /\ failed = "none",
            !.start = IF failed = "none" THEN "scan" ELSE "failed",
            !.scan = IF failed = "none" THEN <<Root>> ELSE <<>>]
  /\ UNCHANGED <<scope, config, tp, dirs, semaphore, job, registry, respBody,
                 panicked, waiter, upstream, legacy, fw, fwFiles, immich>>

\* lines 89-102: the walk of processExistingFilesRecursive reaches its next
\* entry: a directory is read, any other entry is handed to processFile
FwScanNext ==
  /\ scope.fw
  /\ inotify.start = "scan"
  /\ fw.pc = "idle"
  /\ inotify.scan # <<>>
  /\ LET p == Head(inotify.scan) IN
     IF p \in {Root, SubDir}
     THEN /\ inotify' = [inotify EXCEPT !.scan = ReadDir(p) \o Tail(@)]
          /\ UNCHANGED <<scope, config, tp, dirs, semaphore, job, registry,
                         respBody, panicked, waiter, upstream, legacy, fw,
                         fwFiles, immich>>
     ELSE /\ inotify' = [inotify EXCEPT !.scan = Tail(@),
                                        !.scanned = Append(@, p)]
          /\ processFileCall(p, 0)

\* lines 57-60: the walk is over, the loop goroutine is started
FwScanEnd ==
  /\ scope.fw
  /\ inotify.start = "scan"
  /\ fw.pc = "idle"
  /\ inotify.scan = <<>>
  /\ inotify' = [inotify EXCEPT !.start = "loop"]
  /\ UNCHANGED <<scope, config, tp, dirs, semaphore, job, registry, respBody,
                 panicked, waiter, upstream, legacy, fw, fwFiles, immich>>

Start == FwStart \/ FwScanNext \/ FwScanEnd

(* ------------------------- registry accesses --------------------------- *)
\* the next statement of a running newJob or of its goroutine writes the
\* maps: the deletes of cleanup1 on a return that runs it. No statement of
\* jobs.go takes a lock
RegistryWrite(j) ==
  /\ j \in scope.jobs
  /\ \/ job[j].pc \in {"created", "posting", "direct", "deliver", "ackwait"}
     \/ job[j].pc = "processing" /\ tp[j].pc = "returned"

\* the next statement of a running continueJob reads the maps: the index
\* expression of line 245
RegistryLookup(w) ==
  /\ w \in scope.waiters
  /\ waiter[w].pc = "stream"

(* --------------------------- specifications ---------------------------- *)
InitProgram ==
  /\ tp = [o \in Owners |-> IdleTP]
  /\ dirs = {}
  /\ semaphore = 0
  /\ job = [j \in Jobs |-> IdleJob]
  /\ jobChannels = {}
  /\ jobChannelsComplete = {}
  /\ chans = [j \in Jobs |-> [res |-> "none", ack |-> "none"]]
  /\ retired = [j \in Jobs |-> 0]
  /\ respBody = [j \in Jobs |-> "none"]
  /\ panicked = {}
  /\ waiter = [w \in Waiters |-> IdleWaiter]
  /\ upstream = {}
  /\ legacy = [h \in Handlers |-> IdleLegacy]
  /\ fw = IdleFW
  /\ immich = <<>>

\* an empty watched tree, the watcher started
InitState ==
  /\ InitProgram
  /\ fwFiles = [n \in Filenames \cup SubdirFiles |-> NoFile]
  /\ inotify = NoEvents

FallbackConfig == <<Task("A", {<<"j">>}, "cmd"), Task("B", {<<"j">>, <<"p">>}, "cmd")>>

\* the continuation protocol: uploads through newJob and polls of the wait
\* endpoint, under a two-task fallback chain
Init ==
  /\ InitState
  /\ config = FallbackConfig
  /\ scope = [jobs |-> Jobs, waiters |-> Waiters, legacy |-> {}, fw |-> FALSE,
              follow |-> BOOLEAN, names |-> {<<"a", ".", "J">>}, sizes |-> {1},
              outs |-> {1}, outexts |-> {<<".", "x">>}, upload |-> "watcher"]

Next ==
  \/ \E j \in Jobs : newJob(j) \/ JobAckTimeout(j)
  \/ \E j \in Jobs, w \in Waiters : JobDeliverSend(j, w) \/ JobAckRecv(j, w)
  \/ \E w \in Waiters : continueJob(w)

Spec == Init /\ [][Next]_vars

\* the pipeline under every task chain of up to MaxTasks definitions, every
\* filename and every processed size, driven by one upload
InitProcess ==
  /\ InitState
  /\ config \in Configs
  /\ scope = [jobs |-> {1}, waiters |-> {}, legacy |-> {}, fw |-> FALSE,
              follow |-> BOOLEAN, names |-> Filenames, sizes |-> {1},
              outs |-> 0..MaxSize, outexts |-> {<<".", "x">>, <<".", "X">>},
              upload |-> "watcher"]

NextProcess == \E j \in Jobs : newJob(j)

SpecProcess == InitProcess /\ [][NextProcess]_vars

\* one upload through each ingestion path at a time, over every pair of
\* original and processed size
InitIngest ==
  /\ InitState
  /\ config = FallbackConfig
  /\ \E path \in {"newJob", "handleMultipartUpload", "processFile"},
        up \in UploadVariants :
       /\ path # "processFile" => up = "watcher"
       /\ scope = [jobs |-> IF path = "newJob" THEN {1} ELSE {},
                   waiters |-> {},
                   legacy |-> IF path = "handleMultipartUpload" THEN {1} ELSE {},
                   fw |-> (path = "processFile"),
                   follow |-> BOOLEAN,
                   names |-> IF path = "processFile"
                             THEN {<<"a", ".", "J">>, <<"a">>}
                             ELSE {<<"a", ".", "J">>},
                   sizes |-> 0..MaxSize, outs |-> 0..MaxSize,
                   outexts |-> {<<".", "x">>}, upload |-> up]

NextIngest ==
  \/ \E j \in Jobs : newJob(j)
  \/ \E h \in Handlers : handleMultipartUpload(h)
  \/ processFile

SpecIngest == InitIngest /\ [][NextIngest]_vars

\* the gate: concurrent uploads through handleMultipartUpload and the watcher
InitGate ==
  /\ InitState
  /\ config = FallbackConfig
  /\ scope = [jobs |-> {}, waiters |-> {}, legacy |-> Handlers, fw |-> TRUE,
              follow |-> BOOLEAN, names |-> {<<"a", ".", "J">>}, sizes |-> {1},
              outs |-> {1}, outexts |-> {<<".", "x">>}, upload |-> "watcher"]

NextGate ==
  \/ \E h \in Handlers : handleMultipartUpload(h)
  \/ processFile

SpecGate == InitGate /\ [][NextGate]_vars

\* an upload through newJob while the watcher processes files
InitPaths ==
  /\ InitState
  /\ config = FallbackConfig
  /\ scope = [jobs |-> {1}, waiters |-> {}, legacy |-> {}, fw |-> TRUE,
              follow |-> BOOLEAN, names |-> {<<"a", ".", "J">>}, sizes |-> {1},
              outs |-> {1}, outexts |-> {<<".", "x">>}, upload |-> "watcher"]

NextPaths ==
  \/ \E j \in Jobs : newJob(j)
  \/ processFile

SpecPaths == InitPaths /\ [][NextPaths]_vars

\* the watcher running its loop while a subdirectory is created and files
\* are written into the tree
InitWatch ==
  /\ InitState
  /\ config = FallbackConfig
  /\ scope = [jobs |-> {}, waiters |-> {}, legacy |-> {}, fw |-> TRUE,
              follow |-> BOOLEAN, names |-> {<<"a", ".", "J">>}, sizes |-> {1},
              outs |-> {1}, outexts |-> {<<".", "x">>}, upload |-> "watcher"]

NextWatch ==
  \/ watchLoop
  \/ Process(FW) \/ FwAfterProcess \/ FwUpload

\* the loop goroutine keeps running: it reads a queued event, and the
\* command and the upload it started return
WatchStep == FwHandleEvent \/ Process(FW) \/ FwAfterProcess \/ FwUpload

SpecWatch == InitWatch /\ [][NextWatch]_vars
FairSpecWatch == InitWatch /\ [][NextWatch]_vars /\ WF_vars(WatchStep)

\* the watcher from the call of Start on, over the trees of up to MaxEvents
\* files with or without the subdirectory, under a single task for j, while
\* the subdirectory is created and written into
StartTrees ==
  {F \in SUBSET ({<<"a", ".", "J">>, <<"a", ".", "p">>} \cup SubdirFiles) :
     Cardinality(F) <= MaxEvents}

InitWatcher ==
  /\ InitProgram
  /\ config = <<Task("A", {<<"j">>}, "cmd")>>
  /\ scope = [jobs |-> {}, waiters |-> {}, legacy |-> {}, fw |-> TRUE,
              follow |-> BOOLEAN, names |-> {}, sizes |-> {1},
              outs |-> {1}, outexts |-> {<<".", "x">>}, upload |-> "watcher"]
  /\ \E F \in StartTrees, d \in BOOLEAN :
       /\ (F \cap SubdirFiles # {}) => d
       /\ fwFiles = [n \in Filenames \cup SubdirFiles |->
                       IF n \in F THEN 1 ELSE NoFile]
       /\ inotify = [NoEvents EXCEPT !.start = "new", !.root = FALSE,
                       !.dir = d, !.atStart = [files |-> F, dir |-> d]]

NextWatcher ==
  \/ Start
  \/ watchLoop
  \/ Process(FW) \/ FwAfterProcess \/ FwUpload

SpecWatcher == InitWatcher /\ [][NextWatcher]_vars

\* the watcher handed a file of every name, next to a file a.p, under every
\* task chain of up to MaxTasks definitions
InitExt ==
  /\ InitState
  /\ config \in Configs
  /\ \E name \in Filenames :
       scope = [jobs |-> {}, waiters |-> {}, legacy |-> {}, fw |-> TRUE,
                follow |-> BOOLEAN, names |-> {name, <<"a", ".", "p">>},
                sizes |-> {1}, outs |-> {1}, outexts |-> {<<".", "x">>},
                upload |-> "watcher"]

NextExt == processFile

SpecExt == InitExt /\ [][NextExt]_vars

(* ------------------------------- claims -------------------------------- *)
Returned(t) == t.pc \in {"returned", "used"}

\* C1: Process returns nil, with a processed result file set, whenever a
\* matching task had a successful attempt (also after earlier failed
\* attempts), and a Failure when no task matched or every attempt failed
C1_ProcessSucceedsIffAnAttemptSucceeds ==
  \A o \in Owners : Returned(tp[o]) =>
     /\ (tp[o].won # 0 => tp[o].err = Nil /\ tp[o].ProcessedFile.open)
     /\ (tp[o].won = 0 => tp[o].err # Nil)

\* the extension of the file, lower-cased and without its leading dot
NormalizedExt(filename) ==
  LET e == pathExt(filename) IN
  ToLower(IF e # <<>> /\ Head(e) = "." THEN Tail(e) ELSE e)
MatchingTasks(filename) ==
  {i \in 1..Len(config) : NormalizedExt(filename) \in config[i].Extensions}
Range(s) == {s[i] : i \in 1..Len(s)}

\* C2: Process attempts the task definitions in configuration order, only
\* those whose extension list contains the normalized extension of the file,
\* none after a successful attempt, and the processed result it holds is the
\* output of the last (successful) attempt
C2_AttemptsInConfigOrder ==
  \A o \in Owners :
    LET t == tp[o]
        a == t.attempted
        m == MatchingTasks(t.OriginalFilename)
    IN /\ \A k \in 1..Len(a) : a[k] \in m
       /\ \A k \in 1..(Len(a) - 1) : a[k] < a[k + 1]
       /\ \A i \in m : (a # <<>> /\ i < a[Len(a)]) => i \in Range(a)
       /\ (Returned(t) /\ t.won = 0) => Range(a) = m
       /\ t.won # 0 =>
            /\ Returned(t)
            /\ a # <<>> /\ a[Len(a)] = t.won
            /\ t.ProcessedFile.content = Output(t.won, t.ProcessedSize)
C2_FallbackWitness ==
  \E o \in Owners :
    /\ tp[o].pc = "returned"
    /\ tp[o].attempted = <<1, 2>>
    /\ tp[o].won = 2
    /\ tp[o].ProcessedFile.content = Output(2, 1)

\* C3: when the pipeline returns a Failure no request of that upload is sent
\* upstream, neither by newJob nor by handleMultipartUpload
C3_NoRequestAfterFailure ==
  /\ \A j \in Jobs : (Returned(tp[j]) /\ tp[j].err # Nil) =>
        ~\E r \in upstream : r.from = j
  /\ \A h \in Handlers : legacy[h].failed = "processImage" =>
        ~\E r \in upstream : r.from = 0 - h
C3_FailureWitness ==
  \E j \in Jobs :
    /\ job[j].pc = "done" /\ job[j].exit = "pipeline"
    /\ Len(tp[j].attempted) = 2 /\ tp[j].won = 0
    /\ upstream = {}

\* C4 as stated: in both ingestion paths, after a successful run, the
\* processed file replaces the original exactly when it is strictly smaller
C4_ReplacedIffStrictlySmaller ==
  /\ \A r \in upstream : r.replaced <=> Len(r.processed) < Len(r.original)
  /\ \A k \in 1..Len(immich) : immich[k].success =>
        (immich[k].file = "processed"
           <=> Len(immich[k].processed) < Len(immich[k].original))
\* C4 amended: on the HTTP paths the processed file replaces the original
\* exactly when it is strictly smaller; processFile replaces exactly when it
\* is strictly smaller and not empty
C4_ReplacedIffSmallerAndNotEmptyInWatcher ==
  /\ \A r \in upstream :
        /\ r.replaced <=> Len(r.processed) < Len(r.original)
        /\ r.replaced => r.body = r.processed
  /\ \A k \in 1..Len(immich) : immich[k].success =>
        /\ immich[k].file = "processed"
             <=> /\ Len(immich[k].processed) < Len(immich[k].original)
                 /\ Len(immich[k].processed) > 0
        /\ immich[k].file = "processed" => immich[k].body = immich[k].processed
C4_EmptyResultWitness ==
  \E k \in 1..Len(immich) :
    /\ immich[k].success
    /\ immich[k].processed = <<>> /\ Len(immich[k].original) > 0
    /\ immich[k].file = "original"

\* C5: when the result is not strictly smaller, the file part forwarded
\* upstream carries the complete original bytes of the upload
C5_OriginalForwardedComplete ==
  \A r \in upstream : ~r.replaced => r.body = r.original

\* C6: a job whose registry entry was created is retired exactly once on
\* every exit path: never twice, and once when newJob and its delivery
\* goroutine have ended
C6_RetiredExactlyOnce ==
  \A j \in Jobs :
    /\ retired[j] <= 1
    /\ <<"cleanup", j>> \notin panicked
    /\ retired[j] = 1 =>
         /\ j \notin jobChannels /\ j \notin jobChannelsComplete
         /\ chans[j] = [res |-> "closed", ack |-> "closed"]
    /\ (job[j].pc = "done" /\ job[j].exit # "none") => retired[j] = 1
    /\ (job[j].pc \notin {"idle", "done"}) =>
         /\ retired[j] = 0
         /\ j \in jobChannels /\ j \in jobChannelsComplete
         /\ chans[j] = [res |-> "open", ack |-> "open"]
C6_AckTimeoutWitness ==
  \E j \in Jobs : job[j].exit = "acktimeout" /\ retired[j] = 1

\* the goroutines of one job take steps as long as one is enabled; the
\* external command and the upstream POST return
JobStep(j) ==
  \/ newJob(j) \/ JobAckTimeout(j)
  \/ \E w \in Waiters : JobDeliverSend(j, w) \/ JobAckRecv(j, w)
FairSpec == Init /\ [][Next]_vars /\ \A j \in Jobs : WF_vars(JobStep(j))

\* C7: every job that reaches Created eventually reaches Retired, whatever
\* the wait-endpoint clients do
C7_CreatedLeadsToRetired ==
  \A j \in Jobs : (chans[j].res = "open") ~> (retired[j] = 1 /\ j \notin jobChannels)
C7_NeverPolledWitness ==
  \E j \in Jobs :
    /\ job[j].exit = "delivertimeout" /\ retired[j] = 1
    /\ \A w \in Waiters : waiter[w].pc = "idle"

\* C8: a wait-endpoint invocation whose safety timeout elapses answers with a
\* redirect to the same wait URL and leaves the job untouched
C8_TimeoutLeavesJobUntouched ==
  [][\A w \in Waiters :
       (waiter[w].pc = "select" /\ waiter'[w].pc = "done" /\ waiter'[w].resp # "500")
       => /\ waiter'[w].resp = "307"
          /\ waiter'[w].job = waiter[w].job
          /\ UNCHANGED <<job, tp, respBody, upstream, jobChannels,
                         jobChannelsComplete, chans, retired>>]_vars
C8_LaterPollSucceedsWitness ==
  \E w \in Waiters : waiter[w].redirected /\ waiter[w].resp = "upstream"

\* C9: within one job at most one send is attempted on the result channel
\* and at most one wait-endpoint invocation receives the upstream response
C9_SingleSendSingleReceive ==
  \A j \in Jobs : job[j].attempts <= 1 /\ job[j].received <= 1
C9_ConcurrentWaitersWitness ==
  \E j \in Jobs : job[j].received = 1 /\ job[j].blocked >= 2

\* C10: at most GateCapacity external commands started under the gate are
\* executing at the same time
Executing ==
  Cardinality({h \in Handlers : legacy[h].pc = "exec"})
  + Cardinality({o \in Owners : tp[o].pc = "exec" /\ tp[o].semaphore # "nil"})
C11_NoCommandRunsUngated ==
  /\ \A o \in Owners : tp[o].pc = "exec" => tp[o].semaphore # "nil"
  /\ Cardinality({o \in Owners : tp[o].pc = "exec"}) <= GateCapacity

\* C12: a wait request whose identifier is empty or has no registry entry is
\* answered 400 at once, without blocking and without touching the registry
C12_UnknownJobIsClientError ==
  [][\A w \in Waiters :
       (waiter[w].pc \in {"idle", "done"} /\ waiter'[w] # waiter[w]) =>
          /\ (waiter'[w].job = NoJob \/ waiter'[w].job \notin jobChannels)
                => /\ waiter'[w].pc = "done" /\ waiter'[w].resp = "400"
                   /\ UNCHANGED <<job, registry, respBody, panicked>>
          /\ waiter'[w].resp = "400"
                => (waiter'[w].job = NoJob \/ waiter'[w].job \notin jobChannels)]_vars
C12_RetiredJobWitness ==
  \E w \in Waiters, j \in Jobs :
    /\ waiter[w].pc = "done" /\ waiter[w].resp = "400" /\ waiter[w].job = j
    /\ retired[j] = 1

\* C13: when the delivery timeout passes with no receiver, the job is
\* abandoned: the upstream body is closed, the registry entry is torn down,
\* no client ever consumes the response and a later wait request for the
\* identifier is answered "job not found"
C13_AbandonedJobIsTornDown ==
  /\ [](\A j \in Jobs : job[j].exit = "delivertimeout" =>
          /\ respBody[j] = "closed"
          /\ retired[j] = 1
          /\ j \notin jobChannels /\ j \notin jobChannelsComplete
          /\ chans[j] = [res |-> "closed", ack |-> "closed"]
          /\ job[j].received = 0
          /\ \A w \in Waiters : waiter[w].job = j =>
                /\ waiter[w].resp # "upstream"
                /\ waiter[w].pc \notin {"stream", "acksend"})
  /\ [][\A j \in Jobs, w \in Waiters :
          (/\ job[j].exit = "delivertimeout"
           /\ waiter[w].pc \in {"idle", "done"}
           /\ waiter'[w] # waiter[w] /\ waiter'[w].job = j)
          => waiter'[w].pc = "done" /\ waiter'[w].resp = "400"]_vars
C13_LatePollWitness ==
  \E j \in Jobs, w \in Waiters :
    /\ job[j].exit = "delivertimeout" /\ job[j].received = 0
    /\ waiter[w].job = j /\ waiter[w].resp = "400"

\* an invocation that has received the response and has not yet signalled
Streaming(w, j) ==
  waiter[w].job = j /\ waiter[w].pc \in {"stream", "acksend"}

\* C14 as stated: while an invocation that received the response is still
\* streaming and has not acknowledged, the registry entry is not deleted,
\* the channels are not closed and the upstream body is not closed
C14_NoTeardownWhileStreaming ==
  \A j \in Jobs, w \in Waiters : Streaming(w, j) =>
     /\ j \in jobChannels /\ j \in jobChannelsComplete
     /\ chans[j] = [res |-> "open", ack |-> "open"]
     /\ respBody[j] = "open"
\* C14 amended: after the response was received the job is torn down only
\* by the acknowledgment or by the acknowledgment timeout; until one of the
\* two the entry, the channels and the body stay intact, and a teardown
\* under an invocation that is still streaming is the timeout's
C14_TeardownOnlyAfterAckOrTimeout ==
  /\ [](\A j \in Jobs, w \in Waiters :
          (Streaming(w, j) /\ job[j].pc # "done") =>
             /\ job[j].pc = "ackwait"
             /\ j \in jobChannels /\ j \in jobChannelsComplete
             /\ chans[j] = [res |-> "open", ack |-> "open"]
             /\ respBody[j] = "open")
  /\ [][\A j \in Jobs, w \in Waiters :
          (/\ retired'[j] # retired[j]
           /\ waiter'[w].job = j /\ waiter'[w].pc \in {"stream", "acksend"})
          => job[j].pc = "ackwait" /\ job'[j].exit = "acktimeout"]_vars
C14_TimeoutWhileStreamingWitness ==
  \E j \in Jobs, w \in Waiters :
    /\ Streaming(w, j) /\ waiter[w].pc = "stream"
    /\ job[j].exit = "acktimeout"
    /\ respBody[j] = "closed" /\ j \notin jobChannels

\* C15: for a client that follows redirects the handler has returned before
\* the pipeline runs; the pipeline and the upstream POST are carried out by a
\* background task
C15_HandlerReturnsBeforePipeline ==
  \A j \in Jobs :
    (job[j].follows /\ job[j].status = "307"
       /\ (tp[j].pc \in {"loop", "acquire", "exec"} \/ job[j].pc = "posting"))
    => ~InHandler(j)

\* C16: a job of a client that cannot follow redirects issues no redirect,
\* starts no delivery goroutine and sends nothing on its result channel; the
\* handler itself writes the upstream status and body after the POST
C16_DirectClientSkipsWaiting ==
  \A j \in Jobs : (job[j].pc # "idle" /\ ~job[j].follows) =>
     /\ job[j].status # "307"
     /\ job[j].pc \notin {"deliver", "ackwait"}
     /\ job[j].attempts = 0 /\ job[j].received = 0
     /\ \A w \in Waiters : waiter[w].job = j => waiter[w].resp # "upstream"
     /\ job[j].status = "upstream" <=> job[j].exit = "direct"
     /\ job[j].exit = "direct" => \E r \in upstream : r.from = j
     /\ (\E r \in upstream : r.from = j) => job[j].pc \in {"direct", "done"}
C16_DirectAnswerWitness ==
  \E j \in Jobs :
    /\ ~job[j].follows /\ job[j].exit = "direct" /\ job[j].status = "upstream"
    /\ \E w \in Waiters : waiter[w].job = j /\ waiter[w].resp = "500"

\* C17: every answer to a poll of the wait endpoint for an identifier that
\* was issued to a redirect-capable client is the upstream response or a
\* redirect to the wait URL, never a hard error
C17_PollNeverGetsHardError ==
  [][\A w \in Waiters :
       LET j == waiter'[w].job IN
       (/\ waiter'[w] # waiter[w]
        /\ j \in Jobs /\ job[j].follows /\ job[j].status = "307")
       => waiter'[w].resp \in {"none", "upstream", "307"}]_vars

\* C18: a client that cannot follow redirects whose upload ends in a
\* pipeline failure (no matching task, every attempt failed) or whose task
\* processor cannot be created is answered 500 by newJob itself, and the job
\* is retired
C18_DirectClientGets500 ==
  \A j \in Jobs : (job[j].pc = "done" /\ ~job[j].follows) =>
     /\ (Returned(tp[j]) /\ tp[j].won = 0) => job[j].exit = "pipeline"
     /\ job[j].exit \in {"pipeline", "processor"} =>
          /\ job[j].status = "500"
          /\ retired[j] = 1
          /\ j \notin jobChannels /\ j \notin jobChannelsComplete
C18_NoMatchingTaskWitness ==
  \E j \in Jobs :
    /\ ~job[j].follows /\ job[j].exit = "pipeline" /\ job[j].status = "500"
    /\ tp[j].attempted = <<>> /\ tp[j].err = NoTaskFound
    /\ retired[j] = 1

\* C19: what the client side does never cancels the processing of an
\* accepted upload: no step of a wait-endpoint invocation changes the
\* pipeline or the request, a running command ends only by exiting, a
\* successful pipeline run goes on to the upstream POST, and the POST has
\* completed before any delivery attempt, also for a job that is abandoned
C19_ProcessingNotCancelledByClient ==
  /\ [](\A j \in Jobs :
          (job[j].attempts > 0
             \/ job[j].exit \in {"ack", "acktimeout", "delivertimeout"})
          => \E r \in upstream : r.from = j)
  /\ [][\A j \in Jobs :
          /\ (tp[j].pc \in {"loop", "acquire", "exec"} /\ tp'[j] # tp[j])
                => waiter' = waiter
          /\ (job[j].pc \in {"created", "processing", "posting"}
                 /\ job'[j] # job[j]) => waiter' = waiter
          /\ (tp[j].pc = "exec" /\ tp'[j] # tp[j])
                => /\ tp'[j].pc \in {"loop", "returned"}
                   /\ job'[j] = job[j]
          /\ (job[j].pc = "processing" /\ Returned(tp[j]) /\ tp[j].err = Nil
                 /\ job'[j] # job[j])
                => job'[j].pc = "posting" \/ job'[j].exit = "build"]_vars
C19_AbandonedAfterPostWitness ==
  \E j \in Jobs :
    /\ job[j].exit = "delivertimeout"
    /\ \A w \in Waiters : waiter[w].pc = "idle"
    /\ \E r \in upstream : r.from = j /\ r.filename = job[j].req.filename

\* C20: the attempt of a task definition whose command is the empty string
\* succeeds with the original file as its output
C20_EmptyCommandAcceptsFile ==
  \A o \in Owners :
    LET t == tp[o] IN
    /\ \A k \in 1..Len(t.errors), i \in 1..Len(config) :
         (config[i].Name = t.errors[k].task /\ config[i].Command = "")
           => t.errors[k].cause = "setup"
    /\ (t.won # 0 /\ config[t.won].Command = "")
         => t.ProcessedFile.content = t.OriginalFile.content

\* C21: in the filesystem path a file whose extension no task definition
\* covers is uploaded unmodified without any command being run, a file
\* whose pipeline run fails is uploaded as the unmodified original, and in
\* both cases exactly one upload of the original is attempted
C21_UncoveredOrFailedUploadsOriginal ==
  /\ [](\A k \in 1..Len(immich) :
          LET r == immich[k] IN
          /\ MatchingTasks(r.name) = {} =>
                r.file = "original" /\ r.body = r.original /\ r.commands = 0
          /\ (MatchingTasks(r.name) # {} /\ ~r.success) =>
                r.file = "original" /\ r.body = r.original)
  /\ [][/\ (fw.pc = "idle" /\ fw'.pc # "idle" /\ MatchingTasks(fw'.path) = {})
             => /\ fw'.pc = "upload" /\ fw'.target = "original"
                /\ tp' = tp
        /\ (fw.pc = "processing" /\ fw' # fw)
             => /\ fw'.pc = "upload"
                /\ tp[FW].err # Nil => fw'.target = "original"
        /\ (fw.pc = "upload" /\ fw' # fw)
             => /\ fw'.pc = "idle"
                /\ Len(immich') = Len(immich) + 1
                /\ immich'[Len(immich')].name = fw.path
                /\ immich'[Len(immich')].file = fw.target
        /\ Len(immich') # Len(immich) => fw.pc = "upload"]_vars
C21_BothCasesWitness ==
  \E k, l \in 1..Len(immich) :
    /\ MatchingTasks(immich[k].name) = {}
    /\ immich[k].file = "original" /\ immich[k].commands = 0
    /\ MatchingTasks(immich[l].name) # {}
    /\ ~immich[l].success /\ immich[l].commands = 2
    /\ immich[l].file = "original"

\* C22: in the filesystem path, after a pipeline success with a strictly
\* smaller result the replacement is uploaded and, once that upload has
\* succeeded, the original is no longer in the watched tree; in every other
\* case the original is uploaded
C22_SmallerResultReplacesAndDiscardsOriginal ==
  \A k \in 1..Len(immich) :
    LET r == immich[k] IN
    IF r.success /\ Len(r.processed) < Len(r.original)
    THEN r.file = "processed" /\ r.body = r.processed /\ (r.ok => ~r.left)
    ELSE r.file = "original"

\* C23: in the filesystem path a successful upload deletes the uploaded
\* local file; a failed upload deletes nothing and copies the file to the
\* undone directory
C23_UploadOutcomeHandling ==
  \A k \in 1..Len(immich) :
    LET r == immich[k] IN
    /\ r.ok => r.removed
    /\ ~r.ok => (~r.removed /\ r.left /\ r.undone)

\* C24: every file written into a subdirectory created under the watch root
\* while the watcher runs is eventually handed to processFile, whatever the
\* order of the handling of the directory creation and the writes
C24_SubdirectoryFileEventuallyProcessed ==
  \A name \in SubdirFiles :
    (fwFiles[name] # NoFile) ~> (name \in inotify.detected)

\* the name without its extension (the suffix from the final dot on)
Stem(name) == SubSeq(name, 1, Len(name) - Len(pathExt(name)))

HeaderValues(h, key) == {h[i].value : i \in {k \in 1..Len(h) : h[k].key = key}}

\* C26: the request sent upstream has every non-file field of the original
\* form with every value, exactly one file part under the original key, and
\* every original header except Content-Length and Content-Type, which are
\* those of the rebuilt body and occur once
C26_UpstreamRequestRebuilt ==
  \A r \in upstream : r.from \in Jobs =>
     /\ \A i \in 1..Len(MultipartFormValue) :
          Cardinality({k \in 1..Len(r.fields) : r.fields[k] = MultipartFormValue[i]})
            = Cardinality({k \in 1..Len(MultipartFormValue) :
                            MultipartFormValue[k] = MultipartFormValue[i]})
     /\ Len(r.fields) = Len(MultipartFormValue)
     /\ r.fileParts = <<filterFormKey>>
     /\ \A i \in 1..Len(ClientHeader) :
          ClientHeader[i].key \notin {"Content-Length", "Content-Type"}
            => \E k \in 1..Len(r.headers) : r.headers[k] = ClientHeader[i]
     /\ HeaderValues(r.headers, "Content-Type") = {"rebuilt"}
     /\ HeaderValues(r.headers, "Content-Length") = {"rebuilt"}
     /\ Cardinality({k \in 1..Len(r.headers) :
                       r.headers[k].key = "Content-Type"}) = 1

\* C27: no two goroutines access the job registry at the same time with one
\* of them writing: a goroutine about to insert into or delete from the maps
\* excludes every other goroutine about to read or write them
C27_RegistryAccessExclusive ==
  /\ [](\A j \in Jobs : RegistryWrite(j) =>
          /\ \A w \in Waiters : ~RegistryLookup(w)
          /\ \A k \in Jobs \ {j} : ~RegistryWrite(k))
  /\ [][\A w \in Waiters, j \in Jobs :
          (waiter[w].pc \in {"idle", "done"} /\ waiter'[w] # waiter[w])
          => ~RegistryWrite(j)]_vars

\* the sections that run under a permit: executeCommand of a processor with
\* a semaphore, and handleMultipartUpload from its first statement to its
\* return
GatedSections ==
  Cardinality({h \in Handlers : legacy[h].pc \in {"exec", "post"}})
  + Cardinality({o \in Owners : tp[o].pc = "exec" /\ tp[o].semaphore # "nil"})
CommandsRunning ==
  Cardinality({h \in Handlers : legacy[h].pc = "exec"})
  + Cardinality({o \in Owners : tp[o].pc = "exec"})

\* C28 as stated: the permits held are as many as the gated sections that
\* are executing, and when no command is running every permit is free
C28_PermitsMatchCommands ==
  /\ semaphore = GatedSections
  /\ CommandsRunning = 0 => semaphore = 0
\* C28 amended: the permits held are as many as the gated sections that are
\* executing, on every exit path of a command; every permit is free when no
\* gated section is executing (handleMultipartUpload keeps its permit until
\* it returns, after the upstream POST)
C28_PermitsMatchGatedSections ==
  /\ semaphore = GatedSections
  /\ semaphore \in 0..GateCapacity
  /\ (CommandsRunning = 0 /\ \A h \in Handlers : legacy[h].pc # "post")
       => semaphore = 0
C28_ReleasedAfterFailuresWitness ==
  /\ semaphore = 0
  /\ \E h \in Handlers : legacy[h].failed = "processImage"
  /\ \E k \in 1..Len(tp[FW].errors) : tp[FW].errors[k].cause = "exit"

\* C29: every attempt runs in a workspace that is created for it and that
\* no other attempt of the same or another owner uses, and the workspace of a
\* failed attempt is deleted before the next matching task is attempted
C29_WorkspaceExclusiveAndFresh ==
  /\ [](/\ \A o1, o2 \in Owners :
             (o1 # o2 /\ tp[o1].tempWorkDir # 0)
               => tp[o1].tempWorkDir # tp[o2].tempWorkDir
         /\ \A o \in Owners :
             /\ tp[o].pc \in {"acquire", "exec"} => tp[o].tempWorkDir \in dirs
             /\ tp[o].pc = "loop" => tp[o].tempWorkDir = 0
         /\ dirs = {tp[p].tempWorkDir : p \in Owners} \ {0})
  /\ [][\A o \in Owners :
          /\ (tp[o].pc = "loop" /\ tp'[o].pc = "acquire")
               => /\ tp'[o].tempWorkDir \notin dirs
                  /\ tp'[o].tempWorkDir \in dirs'
          /\ (tp[o].pc = "exec" /\ tp'[o].pc = "loop")
               => tp[o].tempWorkDir \notin dirs']_vars
C29_FallbackNextToOtherOwnerWitness ==
  \E o1, o2 \in Owners :
    /\ o1 # o2
    /\ tp[o1].pc = "exec" /\ tp[o1].attempted = <<1, 2>>
    /\ tp[o1].errors[1].cause \in {"exit", "count"}
    /\ tp[o2].pc = "exec"
    /\ tp[o1].tempWorkDir # tp[o2].tempWorkDir

C31_FailureAggregatesAttemptErrors ==
  \A o \in Owners :
    LET t == tp[o]
        a == t.attempted
    IN Returned(t) =>
       /\ t.won = 0 =>
            /\ Len(t.errors) = Len(a)
            /\ \A k \in 1..Len(a) : t.errors[k].task = config[a[k]].Name
            /\ Len(a) = 0 => t.err = NoTaskFound
            /\ Len(a) = 1 => t.err = [kind |-> "task", tasks |-> t.errors]
            /\ Len(a) > 1 => t.err = [kind |-> "errors", tasks |-> t.errors]
       /\ t.err.kind \in {"task", "errors"} => t.won = 0

\* C32: an attempt takes its gate permit before its workspace and its copy of
\* the original are allocated and keeps it until the attempt ends: an attempt
\* waiting at the gate holds no workspace, and the destination directory is
\* inspected with the permit still held
C32_PermitBeforeWorkspace ==
  /\ [](\A o \in Owners :
          (tp[o].pc = "acquire" /\ tp[o].semaphore # "nil") =>
             tp[o].tempWorkDir = 0)
  /\ [][\A o \in Owners :
          (tp[o].pc = "exec" /\ tp[o].semaphore # "nil"
             /\ tp'[o].pc # "exec") => semaphore' >= semaphore]_vars

\* C33: on startup every directory existing in the tree is watched before
\* any file is handed to processFile and before the loop runs; once the scan
\* is over every file that existed at startup has been handed to processFile
\* exactly once by it; when a watch cannot be registered Start fails and
\* neither the scan nor the loop ever runs
C33_StartupWatchesThenScans ==
  LET scanned == inotify.scanned
      Times(f) == Cardinality({k \in 1..Len(scanned) : scanned[k] = f})
  IN
  /\ (scanned # <<>> \/ inotify.start = "loop" \/ fw.pc # "idle") =>
        /\ Root \in watchMap
        /\ inotify.atStart.dir => SubDir \in watchMap
        /\ inotify.start \in {"scan", "loop"}
  /\ inotify.start # "loop" => inotify.detected = {}
  /\ inotify.start = "loop" =>
        \A f \in inotify.atStart.files : Times(f) = 1
  /\ inotify.start = "failed" =>
        /\ scanned = <<>> /\ inotify.scan = <<>> /\ immich = <<>>
        /\ fw = IdleFW /\ tp[FW] = IdleTP
C33_TwoFilesScannedWitness ==
  /\ inotify.start = "loop"
  /\ inotify.atStart.dir
  /\ inotify.scanned = << <<"a", ".", "J">>, <<"d", "/", "a", ".", "J">> >>
  /\ Len(immich) = 2

\* C34: while the watcher runs the watch table only grows: no step removes
\* the entry of a directory, and a step of processFile (the pipeline run and
\* the upload included) leaves the table as it is
C34_WatchTableOnlyGrows ==
  [][/\ watchMap \subseteq watchMap'
     /\ (fw' # fw \/ tp'[FW] # tp[FW] \/ immich' # immich) =>
           watchMap' = watchMap]_vars
C34_SubdirectoryAddedByLoopWitness ==
  /\ inotify.start = "loop"
  /\ ~inotify.atStart.dir
  /\ watchMap = {Root, SubDir}
  /\ inotify.detected # {}
  /\ Len(immich) >= 2

\* the goroutine of a wait request keeps running: a ready case of its select
\* is taken, the body is streamed, a send whose channel is closed panics
WaitStep(w) ==
  \/ WRecvClosed(w) \/ WTimeout(w) \/ WStreamDone(w) \/ WAckPanic(w)
  \/ \E j \in Jobs : JobAckRecv(j, w)
FairSpecWait ==
  /\ Init /\ [][Next]_vars
  /\ \A j \in Jobs : WF_vars(JobStep(j))
  /\ \A w \in Waiters : WF_vars(WaitStep(w))

\* C35: every wait request eventually returns: after it received and
\* streamed the upstream response its acknowledgment send completes, also
\* when the goroutine of the job gave up waiting for it and retired the job
C35_WaitRequestReturns ==
  \A w \in Waiters : (waiter[w].pc = "stream") ~> (waiter[w].pc = "done")

\* C36: in no interleaving of the delivery goroutine, the cleanup and the
\* wait requests is a value sent on a closed channel, a channel closed twice
\* or a nil channel closed: no goroutine panics
C36_NoChannelPanic == panicked = {}

\* C37: on every exit path of newJob after the task processor was created
\* the processor is cleaned exactly once, and after the upstream response
\* was obtained its body is closed exactly once, both no later than the
\* retirement of the registry entry: no retired job has an open upstream
\* body or a workspace left
C37_ResourcesReleasedWithRetirement ==
  /\ [](\A j \in Jobs :
          /\ tp[j].cleaned <= 1
          /\ retired[j] = 1 =>
               /\ respBody[j] # "open"
               /\ tp[j].pc # "idle" =>
                    /\ tp[j].cleaned = 1
                    /\ tp[j].tempWorkDir = 0
                    /\ ~tp[j].OriginalFile.open
          /\ (job[j].pc = "done" /\ tp[j].pc # "idle") =>
               tp[j].cleaned = 1 /\ retired[j] = 1
          /\ (job[j].pc = "done" /\ job[j].exit \in {"direct", "ack",
                 "acktimeout", "delivertimeout"}) => respBody[j] = "closed")
  /\ [][\A j \in Jobs :
          /\ respBody[j] = "closed" => respBody'[j] = "closed"
          /\ (respBody'[j] = "closed" /\ respBody[j] # "closed") =>
                respBody[j] = "open"]_vars
C37_AcknowledgedJobReleasedWitness ==
  \E j \in Jobs :
    /\ job[j].exit = "ack" /\ retired[j] = 1
    /\ tp[j].won # 0 /\ tp[j].cleaned = 1 /\ tp[j].tempWorkDir = 0
    /\ respBody[j] = "closed" /\ dirs = {}

\* C38: the filesystem path handles the events one at a time in the order
\* read: an event is taken from the head of the queue only when no call of
\* processFile is in progress, so at most one pipeline run of the path
\* exists and the path never holds more than one gate permit
C38_EventsHandledOneAtATime ==
  /\ [](/\ fw.pc = "idle" => tp[FW].pc = "idle" /\ tp[FW].tempWorkDir = 0
        /\ semaphore <= 1
        /\ semaphore = 1 => tp[FW].pc = "exec" /\ fw.pc = "processing")
  /\ [][Len(inotify'.queue) < Len(inotify.queue) =>
          /\ inotify'.queue = Tail(inotify.queue)
          /\ fw.pc = "idle" /\ tp[FW].pc = "idle"
          /\ (Head(inotify.queue).mask = "IN_CLOSE_WRITE" /\ fw'.pc # "idle")
                => fw'.path = Head(inotify.queue).name]_vars
C38_EventWaitsForRunningPipelineWitness ==
  /\ tp[FW].pc = "exec"
  /\ inotify.queue # <<>>
  /\ Len(immich) >= 1

\* C39: shouldProcessExtension is true of an extension exactly when Process
\* attempts at least one task for a file of that extension, so the watcher
\* never calls Process for a file no task matches and Process never returns
\* "no task found for file extension" to it
C39_ExtensionCheckAgreesWithProcess ==
  /\ \A name \in Filenames :
       shouldProcessExtension(pathExt(name))
         <=> NextMatch(NewTaskProcessor(name, <<>>)) <= Len(config)
  /\ fw.pc = "processing" => MatchingTasks(fw.path) # {}
  /\ (Returned(tp[FW]) /\ fw.pc # "idle") =>
       /\ tp[FW].attempted # <<>>
       /\ tp[FW].err # NoTaskFound
  /\ \A k \in 1..Len(immich) :
       immich[k].commands = 0 => MatchingTasks(immich[k].name) = {}
C39_CoveredAfterUncoveredWitness ==
  /\ Len(immich) = 1
  /\ immich[1].name = <<"a", ".", "p">> /\ immich[1].commands = 0
  /\ fw.path = <<"a", ".", "J">>
  /\ tp[FW].pc = "returned" /\ tp[FW].attempted = <<2>>

====
